---- MODULE Spec2Model ----
(***************************************************************************)
(* Model of SHACL_Generator.py: the OpenAIClient retry loop, the SHACL     *)
(* cleaning / validation functions and the three-step wizard of the        *)
(* Application class.                                                      *)
(*                                                                         *)
(* A text is a sequence of characters, each character a one-character      *)
(* string.  The backtick cannot be written inside a TLA+ string literal,   *)
(* so that one character is written BT.                                    *)
(***************************************************************************)
EXTENDS Integers, Sequences, FiniteSets, TLC

VARIABLES
    history,        \* OpenAIClient.history: sequence of [role, content]
    last,           \* what the last handler / call did (observation only)
    asks,           \* number of OpenAIClient.ask calls made so far (bounded)
    screen,         \* "main", "result" or "closed"
    buttons,        \* labels of the buttons packed in the window
    result_text,    \* content of the result ScrolledText (empty when absent)
    use_case,       \* Application.use_case
    current_step,   \* Application.current_step
    shown,          \* step whose result is on screen (0: none)
    shacl_doc,      \* argument of validate_shacl / auto_correct_shacl
    parsed,         \* document handed to Graph.parse by the last call
    ret             \* value returned by the last validate / auto_correct call

vars == <<history, last, asks, screen, buttons, result_text, use_case,
          current_step, shown, shacl_doc, parsed, ret>>

-----------------------------------------------------------------------------
(* Characters and character classes of Python's re module.                 *)

BT == "BACKTICK"
NL == "\n"
SP == " "
TAB == "\t"

WhiteSpace == {SP, NL, TAB}

LowerLetters == <<"a", "b", "c", "d", "e", "f", "g", "h", "i", "j", "k", "l", "m",
                  "n", "o", "p", "q", "r", "s", "t", "u", "v", "w", "x", "y", "z">>
UpperLetters == <<"A", "B", "C", "D", "E", "F", "G", "H", "I", "J", "K", "L", "M",
                  "N", "O", "P", "Q", "R", "S", "T", "U", "V", "W", "X", "Y", "Z">>
Digits == {"0", "1", "2", "3", "4", "5", "6", "7", "8", "9"}

Range(f) == {f[i] : i \in DOMAIN f}

\* \w
WordChars == Range(LowerLetters) \cup Range(UpperLetters) \cup Digits \cup {"_"}

\* the characters kept by [^@;\w\s:\[\]\{\}\(\)\<\>=\.\-\"\/]+
TurtleChars == WordChars \cup WhiteSpace \cup
    {"@", ";", ":", "[", "]", "{", "}", "(", ")", "<", ">", "=", ".", "-", "\"", "/"}

\* str.lower() on one character
Lower(c) == IF \E i \in DOMAIN UpperLetters : UpperLetters[i] = c
            THEN LowerLetters[CHOOSE i \in DOMAIN UpperLetters : UpperLetters[i] = c]
            ELSE c

Max(S) == CHOOSE x \in S : \A y \in S : y <= x
Min(S) == CHOOSE x \in S : \A y \in S : x <= y

-----------------------------------------------------------------------------
(* Text primitives.                                                        *)

\* pat occurs in s at index i
StartsAt(s, i, pat) ==
    /\ i >= 1
    /\ i + Len(pat) - 1 <= Len(s)
    /\ \A k \in 1..Len(pat) : s[i + k - 1] = pat[k]

\* pat occurs in s at index i, ignoring case (re.IGNORECASE)
StartsAtIgnoreCase(s, i, pat) ==
    /\ i >= 1
    /\ i + Len(pat) - 1 <= Len(s)
    /\ \A k \in 1..Len(pat) : Lower(s[i + k - 1]) = Lower(pat[k])

Contains(s, pat) == \E i \in 1..Len(s) : StartsAt(s, i, pat)

\* s[i..j] (empty when j < i)
Slice(s, i, j) == IF j < i THEN <<>> ELSE SubSeq(s, i, j)

\* end of the longest run of characters of class C starting at i (\s*, \w*, .*):
\* the first index >= i whose character is not in C, Len(s)+1 when there is none
RunEnd(s, i, C) ==
    Min({j \in i..(Len(s) + 1) : j = Len(s) + 1 \/ s[j] \notin C})

\* end of the longest run of characters other than newline ('.' without DOTALL)
LineEnd(s, i) ==
    Min({j \in i..(Len(s) + 1) : j = Len(s) + 1 \/ s[j] = NL})

\* str.strip()
Strip(s) ==
    LET keep == {i \in 1..Len(s) : s[i] \notin WhiteSpace}
    IN  IF keep = {} THEN <<>> ELSE SubSeq(s, Min(keep), Max(keep))

-----------------------------------------------------------------------------
(* The cleaning sequence shared by validate_shacl and auto_correct_shacl.  *)

\* re.sub(r'[^@;\w\s:\[\]\{\}\(\)\<\>=\.\-\"\/]+', '', doc)
RemoveNonTurtle(doc) == SelectSeq(doc, LAMBDA c : c \in TurtleChars)

\* re.sub(r'\n\s*\n', '\n', doc), scanning from index i: \s* is greedy, so a
\* match runs from a newline to the last newline of the whitespace after it
RECURSIVE CollapseFrom(_, _)
CollapseFrom(doc, i) ==
    IF i > Len(doc) THEN <<>>
    ELSE IF doc[i] = NL
         THEN LET e == RunEnd(doc, i + 1, WhiteSpace)
                  J == {j \in (i + 1)..(e - 1) : doc[j] = NL}
              IN  IF J # {} THEN <<NL>> \o CollapseFrom(doc, Max(J) + 1)
                            ELSE <<NL>> \o CollapseFrom(doc, i + 1)
         ELSE <<doc[i]>> \o CollapseFrom(doc, i + 1)

CollapseBlankLines(doc) == CollapseFrom(doc, 1)

Fence == <<BT, BT, BT>>
TagTurtle == <<"t", "u", "r", "t", "l", "e">>
TagTtl == <<"t", "t", "l">>
AtPrefix == <<"@", "p", "r", "e", "f", "i", "x">>

\* index after the optional group (t1|t2|...)? tried in order at index p
AfterTag(doc, p, tags) ==
    LET hit == {k \in DOMAIN tags : StartsAt(doc, p, tags[k])}
    IN  IF hit = {} THEN p ELSE p + Len(tags[Min(hit)])

\* re.sub(r'```(tags)?\s*', '', doc), scanning from index i
RECURSIVE RemoveFencesFrom(_, _, _)
RemoveFencesFrom(doc, i, tags) ==
    IF i > Len(doc) THEN <<>>
    ELSE IF StartsAt(doc, i, Fence)
         THEN RemoveFencesFrom(doc,
                  RunEnd(doc, AfterTag(doc, i + 3, tags), WhiteSpace), tags)
         ELSE <<doc[i]>> \o RemoveFencesFrom(doc, i + 1, tags)

\* re.sub(r'```(turtle|ttl)?\s*', '', doc)
RemoveTaggedFences(doc) == RemoveFencesFrom(doc, 1, <<TagTurtle, TagTtl>>)

\* re.sub(r'```\s*', '', doc)
RemoveBareFences(doc) == RemoveFencesFrom(doc, 1, <<>>)

\* The ways r'@prefix\s*.*?\s*(?<!.)\n' matches at index i: a is where the
\* first \s* ends, b where .*? ends, c where the second \s* ends; doc[c] is the
\* final newline, and the lookbehind (?<!.) wants the character before it to be
\* one that '.' does not match, that is a newline.
PrefixMatches(doc, i) ==
    IF ~StartsAt(doc, i, AtPrefix) THEN {}
    ELSE LET a0 == i + Len(AtPrefix)
         IN  UNION {UNION {{<<a, b, c>> :
                              c \in {x \in b..(RunEnd(doc, b, WhiteSpace) - 1) :
                                        doc[x] = NL /\ doc[x - 1] = NL}} :
                           b \in a..LineEnd(doc, a)} :
                    a \in a0..RunEnd(doc, a0, WhiteSpace)}

\* index of the final newline of the match the backtracking search finds first:
\* \s* greedy (longest a), .*? lazy (shortest b), \s* greedy (longest c)
PrefixMatchEnd(doc, i) ==
    LET M  == PrefixMatches(doc, i)
        a  == Max({m[1] : m \in M})
        b  == Min({m[2] : m \in {x \in M : x[1] = a}})
    IN  Max({m[3] : m \in {x \in M : x[1] = a /\ x[2] = b}})

\* re.sub(r'@prefix\s*.*?\s*(?<!.)\n', r'\g<0>.\n', doc), scanning from index i
RECURSIVE PrefixDotFrom(_, _)
PrefixDotFrom(doc, i) ==
    IF i > Len(doc) THEN <<>>
    ELSE IF PrefixMatches(doc, i) # {}
         THEN LET e == PrefixMatchEnd(doc, i)
              IN  SubSeq(doc, i, e) \o <<".", NL>> \o PrefixDotFrom(doc, e + 1)
         ELSE <<doc[i]>> \o PrefixDotFrom(doc, i + 1)

EnsurePrefixDot(doc) == PrefixDotFrom(doc, 1)

\* re.search(r'@prefix', doc, re.IGNORECASE)
HasPrefixDecl(doc) == \E i \in 1..Len(doc) : StartsAtIgnoreCase(doc, i, AtPrefix)

\* the substitutions and the strip, in the order of the code
CleanDoc(doc) ==
    EnsurePrefixDot(Strip(RemoveBareFences(RemoveTaggedFences(
        CollapseBlankLines(RemoveNonTurtle(doc))))))

ValidatePrefixes ==
    <<"@", "p", "r", "e", "f", "i", "x", SP, "e", "x", ":", SP, "<", "h", "t", "t", "p", ":", "/",
      "/", "e", "x", "a", "m", "p", "l", "e", ".", "o", "r", "g", "/", ">", SP, ".", NL, "@", "p",
      "r", "e", "f", "i", "x", SP, "s", "h", ":", SP, "<", "h", "t", "t", "p", ":", "/", "/", "w",
      "w", "w", ".", "w", "3", ".", "o", "r", "g", "/", "n", "s", "/", "s", "h", "a", "c", "l",
      "#", ">", SP, ".", NL, "@", "p", "r", "e", "f", "i", "x", SP, "r", "d", "f", ":", SP, "<",
      "h", "t", "t", "p", ":", "/", "/", "w", "w", "w", ".", "w", "3", ".", "o", "r", "g", "/",
      "1", "9", "9", "9", "/", "0", "2", "/", "2", "2", "-", "r", "d", "f", "-", "s", "y", "n",
      "t", "a", "x", "-", "n", "s", "#", ">", SP, ".", NL, "@", "p", "r", "e", "f", "i", "x", SP,
      "r", "d", "f", "s", ":", SP, "<", "h", "t", "t", "p", ":", "/", "/", "w", "w", "w", ".",
      "w", "3", ".", "o", "r", "g", "/", "2", "0", "0", "0", "/", "0", "1", "/", "r", "d", "f",
      "-", "s", "c", "h", "e", "m", "a", "#", ">", SP, ".", NL, "@", "p", "r", "e", "f", "i", "x",
      SP, "x", "s", "d", ":", SP, "<", "h", "t", "t", "p", ":", "/", "/", "w", "w", "w", ".", "w",
      "3", ".", "o", "r", "g", "/", "2", "0", "0", "1", "/", "X", "M", "L", "S", "c", "h", "e",
      "m", "a", "#", ">", SP, ".", NL, "@", "p", "r", "e", "f", "i", "x", SP, "s", "c", "h", "e",
      "m", "a", ":", SP, "<", "h", "t", "t", "p", "s", ":", "/", "/", "s", "c", "h", "e", "m",
      "a", ".", "o", "r", "g", "/", ">", SP, ".", NL, NL>>

AutoCorrectPrefixes ==
    <<"@", "p", "r", "e", "f", "i", "x", SP, "e", "x", ":", SP, "<", "h", "t", "t", "p", ":", "/",
      "/", "e", "x", "a", "m", "p", "l", "e", ".", "o", "r", "g", "/", ">", SP, ".", NL, "@", "p",
      "r", "e", "f", "i", "x", SP, "s", "h", ":", SP, "<", "h", "t", "t", "p", ":", "/", "/", "w",
      "w", "w", ".", "w", "3", ".", "o", "r", "g", "/", "n", "s", "/", "s", "h", "a", "c", "l",
      "#", ">", SP, ".", NL, "@", "p", "r", "e", "f", "i", "x", SP, "s", "c", "h", "e", "m", "a",
      ":", SP, "<", "h", "t", "t", "p", "s", ":", "/", "/", "s", "c", "h", "e", "m", "a", ".",
      "o", "r", "g", "/", ">", SP, ".", NL, "@", "p", "r", "e", "f", "i", "x", SP, "x", "s", "d",
      ":", SP, "<", "h", "t", "t", "p", ":", "/", "/", "w", "w", "w", ".", "w", "3", ".", "o",
      "r", "g", "/", "2", "0", "0", "1", "/", "X", "M", "L", "S", "c", "h", "e", "m", "a", "#",
      ">", SP, ".", NL, NL>>

\* the document validate_shacl hands to Graph.parse
ValidateInput(doc) ==
    LET d == CleanDoc(doc)
    IN  IF ~HasPrefixDecl(d) THEN ValidatePrefixes \o d ELSE d

\* the document auto_correct_shacl hands to Graph.parse
AutoCorrectInput(doc) ==
    LET d == CleanDoc(doc)
    IN  IF ~HasPrefixDecl(d) THEN AutoCorrectPrefixes \o d ELSE d

-----------------------------------------------------------------------------
(* validate_shacl and auto_correct_shacl.  Graph.parse and pyshacl.validate *)
(* are external: each call's outcome is an input of the model.             *)

ParseOutcomes ==
    {[raised |-> FALSE, msg |-> ""], [raised |-> TRUE, msg |-> "Bad syntax"]}

ValidatorOutcomes ==
    {[raised |-> TRUE, msg |-> "Validator failure", conforms |-> FALSE, results_text |-> ""],
     [raised |-> FALSE, msg |-> "", conforms |-> TRUE, results_text |-> "Conforms: True"],
     [raised |-> FALSE, msg |-> "", conforms |-> FALSE, results_text |-> "Conforms: False"]}

\* validate_shacl with an except clause that catches the parser's errors only
validate_shacl_parse_only(doc, p, v) ==
    IF p.raised THEN <<FALSE, p.msg>> ELSE <<v.conforms, v.results_text>>

\* the try block and the except clause of validate_shacl: the returned pair
validate_shacl(doc, p, v) ==
    IF p.raised THEN <<FALSE, p.msg>>
    ELSE IF v.raised THEN <<FALSE, v.msg>>
    ELSE <<v.conforms, v.results_text>>

RECURSIVE Concat(_)
Concat(ss) == IF ss = <<>> THEN <<>> ELSE Head(ss) \o Concat(Tail(ss))

\* the f-string appended for one property
PropertyBlock(path) ==
    <<SP, SP, SP, SP, "s", "h", ":", "p", "r", "o", "p", "e", "r", "t", "y", SP, "[", NL, SP, SP,
      SP, SP, SP, SP, SP, SP, "s", "h", ":", "p", "a", "t", "h", SP, "s", "c", "h", "e", "m", "a",
      ":">> \o path \o
    <<SP, ";", NL, SP, SP, SP, SP, SP, SP, SP, SP, "s", "h", ":", "d", "a", "t", "a", "t", "y",
      "p", "e", SP, "x", "s", "d", ":", "s", "t", "r", "i", "n", "g", SP, ";", NL, SP, SP, SP, SP,
      SP, SP, SP, SP, "s", "h", ":", "m", "i", "n", "C", "o", "u", "n", "t", SP, "1", SP, ";", NL,
      SP, SP, SP, SP, SP, SP, SP, SP, "s", "h", ":", "m", "a", "x", "C", "o", "u", "n", "t", SP,
      "1", SP, ";", NL, SP, SP, SP, SP, "]", SP, ";", NL>>

\* the f-string appended for one class, followed by its properties
ClassBlock(cls) ==
    <<"e", "x", ":">> \o cls.name \o <<NL, SP, SP, SP, SP, "a", SP, "s", "h", ":", "N", "o", "d", "e", "S", "h", "a", "p", "e", SP,
      ";", NL, SP, SP, SP, SP, "s", "h", ":", "t", "a", "r", "g", "e", "t", "C", "l", "a", "s",
      "s", SP, "s", "c", "h", "e", "m", "a", ":">> \o cls.name \o
    <<SP, ";", NL>> \o Concat([k \in DOMAIN cls.paths |-> PropertyBlock(cls.paths[k])])

\* base_shacl built in the except clause of auto_correct_shacl;
\* classes_and_properties is the dict as the sequence of its items
BaseShacl(classes_and_properties) ==
    AutoCorrectPrefixes
    \o Concat([k \in DOMAIN classes_and_properties |->
                 ClassBlock(classes_and_properties[k])])
    \o <<".">>

auto_correct_shacl(doc, classes_and_properties, p) ==
    IF p.raised THEN BaseShacl(classes_and_properties) ELSE AutoCorrectInput(doc)

-----------------------------------------------------------------------------
(* Input documents of the cleaning functions: an optional opening fence,   *)
(* an optional @prefix line, blank lines, a statement, an optional closing *)
(* fence.                                                                  *)

MaxBlankLines == 1

FenceOpens ==
    {<<>>, <<BT, BT, BT, NL>>, Fence \o TagTurtle \o <<NL>>, Fence \o TagTtl \o <<NL>>}

DottedPrefix == <<"@", "p", "r", "e", "f", "i", "x", SP, "e", ":", SP, "<", "u", "#", ">", SP, ".", NL>>
UndottedPrefix == <<"@", "p", "r", "e", "f", "i", "x", SP, "e", ":", SP, "<", "u", "#", ">", NL>>
UpperPrefix == <<"@", "P", "R", "E", "F", "I", "X", SP, "e", ":", SP, "<", "u", "#", ">", SP, ".", NL>>

PrefixLines == {<<>>, DottedPrefix, UndottedPrefix, UpperPrefix}

Bodies == { <<"e", ":", "a", SP, "a", SP, "s", "h", ":", "N", "o", "d", "e", "S", "h", "a", "p", "e", SP,
      ".">>,
            <<"<", "u", "#", "a", ">", SP, "e", ":", "p", SP, "1", ",", SP, "2", SP, ".">> }

FenceCloses == {<<>>, <<NL, BT, BT, BT>>}

BlankLines(k) == [i \in 1..k |-> NL]

InputDocs ==
    {o \o p \o BlankLines(k) \o b \o c :
        o \in FenceOpens, p \in PrefixLines, k \in 0..MaxBlankLines,
        b \in Bodies, c \in FenceCloses}

ClassesAndProperties ==
    {<<>>,
     <<[name |-> <<"C", "a", "r">>, paths |-> << <<"c", "o", "l", "o", "r">> >>]>>}

-----------------------------------------------------------------------------
(* OpenAIClient.  A message content is the template it was built from and  *)
(* the texts substituted into it.  chat.completions.create is external:    *)
(* api[k] is what the k-th request of a call meets.                        *)

SystemMessage ==
    [role |-> "system", content |-> [template |-> "system", args |-> <<>>]]

UserMessage(content) == [role |-> "user", content |-> content]

AssistantMessage(text) ==
    [role |-> "assistant", content |-> [template |-> "text", args |-> <<text>>]]

PlainPrompt(text) == [template |-> "text", args |-> <<text>>]

\* Python's None: no text equals it, a text being a sequence of single characters
None == <<"None">>

ApiFailure == [ok |-> FALSE, text |-> <<>>]

ApiOutcomes(responses) == {ApiFailure} \cup {[ok |-> TRUE, text |-> r] : r \in responses}

\* the loop with the retry test written attempt < max_retries
RECURSIVE AskLoopSleepAlways(_, _, _, _, _, _)
AskLoopSleepAlways(hist, prompt, max_retries, api, attempt, events) ==
    IF attempt >= max_retries
    THEN [outcome |-> "none", response |-> None, history |-> hist,
          events |-> events]
    ELSE LET h1  == Append(hist, UserMessage(prompt))
             ev1 == Append(events, "request")
         IN  IF api[attempt + 1].ok
             THEN [outcome |-> "return", response |-> api[attempt + 1].text,
                   history |-> Append(h1, AssistantMessage(api[attempt + 1].text)),
                   events |-> ev1]
             ELSE AskLoopSleepAlways(h1, prompt, max_retries, api, attempt + 1,
                                     Append(ev1, "sleep"))

\* the body of the for loop from iteration `attempt` on
RECURSIVE AskLoop(_, _, _, _, _, _)
AskLoop(hist, prompt, max_retries, api, attempt, events) ==
    IF attempt >= max_retries
    THEN \* range(max_retries) is exhausted without a return or a raise: the
         \* function falls off its end and returns None
         [outcome |-> "none", response |-> None, history |-> hist,
          events |-> events]
    ELSE LET h1  == Append(hist, UserMessage(prompt))
             ev1 == Append(events, "request")
         IN  IF api[attempt + 1].ok
             THEN [outcome |-> "return", response |-> api[attempt + 1].text,
                   history |-> Append(h1, AssistantMessage(api[attempt + 1].text)),
                   events |-> ev1]
             ELSE IF attempt < max_retries - 1
                  THEN AskLoop(h1, prompt, max_retries, api, attempt + 1,
                               Append(ev1, "sleep"))
                  ELSE [outcome |-> "raise", response |-> None,
                        history |-> h1, events |-> ev1]

\* OpenAIClient.ask(prompt, max_retries=max_retries)
Ask(hist, prompt, max_retries, api) == AskLoop(hist, prompt, max_retries, api, 0, <<>>)

DefaultMaxRetries == 3

Requests(events) == Len(SelectSeq(events, LAMBDA e : e = "request"))
Sleeps(events) == Len(SelectSeq(events, LAMBDA e : e = "sleep"))

-----------------------------------------------------------------------------
(* Text handling of the Application class.                                 *)

\* Text.get("1.0", tk.END): the content and the newline Tk appends
TextGet(content) == content \o <<NL>>

\* where r"```(?:turtle)?\s*" ends when it starts at the fence at index i
FenceBodyStart(text, i) ==
    RunEnd(text, AfterTag(text, i + 3, <<TagTurtle>>), WhiteSpace)

\* the fences at which re.search(r"```(?:turtle)?\s*(.*?)```", text, re.DOTALL)
\* can match: a closing fence follows the opening one
FenceMatches(text) ==
    {i \in 1..Len(text) :
        /\ StartsAt(text, i, Fence)
        /\ \E j \in FenceBodyStart(text, i)..Len(text) : StartsAt(text, j, Fence)}

\* Application.extract_shacl_code
extract_shacl_code(text) ==
    IF FenceMatches(text) # {}
    THEN LET i == Min(FenceMatches(text))
             p == FenceBodyStart(text, i)
             j == Min({x \in p..Len(text) : StartsAt(text, x, Fence)})
         IN  Strip(Slice(text, p, j - 1))
    ELSE Strip(text)

\* re.findall(r'- (\w+):', text), scanning from index i
RECURSIVE EntitiesFrom(_, _)
EntitiesFrom(text, i) ==
    IF i > Len(text) THEN <<>>
    ELSE LET e == RunEnd(text, i + 2, WordChars)
         IN  IF /\ StartsAt(text, i, <<"-", SP>>)
                /\ e > i + 2
                /\ e <= Len(text)
                /\ text[e] = ":"
             THEN <<Slice(text, i + 2, e - 1)>> \o EntitiesFrom(text, e + 1)
             ELSE EntitiesFrom(text, i + 1)

Entities(text) == EntitiesFrom(text, 1)

\* the separator f"- {entity}: "
EntitySeparator(entity) == <<"-", SP>> \o entity \o <<":", SP>>

\* len(text.split(f"- {entity}: ")) > 1: indexing [1] does not raise IndexError
HasDescription(text, entity) == Contains(text, EntitySeparator(entity))

\* text.split(f"- {entity}: ")[1].split('\n')[0].strip()
EntityDescription(text, entity) ==
    LET sep   == EntitySeparator(entity)
        first == Min({i \in 1..Len(text) : StartsAt(text, i, sep)})
        start == first + Len(sep)
        again == {i \in start..Len(text) : StartsAt(text, i, sep)}
        stop  == IF again = {} THEN Len(text) + 1 ELSE Min(again)
    IN  Strip(Slice(text, start, Min({stop, LineEnd(text, start)}) - 1))

\* the "Type: ...\nDescription: ...\n" lines of prompt_2
TypeLines(text) ==
    LET es == Entities(text)
    IN  Concat([k \in DOMAIN es |->
                  <<"T", "y", "p", "e", ":", SP>> \o es[k] \o <<NL, "D", "e", "s", "c", "r", "i", "p", "t", "i", "o", "n", ":", SP>>
                  \o EntityDescription(text, es[k]) \o <<NL>>])

\* the "- entity\n" lines of prompt_2
EntityLines(text) ==
    LET es == Entities(text)
    IN  Concat([k \in DOMAIN es |-> <<"-", SP>> \o es[k] \o <<NL>>])

Prompt1(case) == [template |-> "prompt_1", args |-> <<case>>]
Prompt2(text) == [template |-> "prompt_2", args |-> <<TypeLines(text), EntityLines(text)>>]
Prompt3(text) == [template |-> "prompt_3", args |-> <<text>>]

UseCaseOfUnstripped(box, new_prompt) ==
    IF new_prompt = None THEN TextGet(box) ELSE new_prompt

\* the use case read by process_use_case(new_prompt)
UseCaseOf(box, new_prompt) ==
    IF new_prompt = None THEN Strip(TextGet(box)) ELSE new_prompt

\* the buttons create_result_interface packs when current_step is step
ResultButtons(step) ==
    IF step = 3 THEN {"Give Feedback", "Close"}
    ELSE {"Back", "Next Step", "Give Feedback"}

StepAfterSkipping(step) == 3

\* the value process_next_step stores in current_step after its LLM call
StepAfter(step) == IF step = 1 THEN 2 ELSE 3

-----------------------------------------------------------------------------
(* Specification of OpenAIClient.ask alone, called with any max_retries.   *)

MaxRetries == 3
MaxAskCalls == 2

AskResponses == { <<"o", "k">>, <<"n", "o">> }
AskPrompt == PlainPrompt(<<"h", "i">>)

Idle == [op |-> "init"]

\* Application.__init__: the text the input box starts with
Placeholder ==
    <<"E", "n", "t", "e", "r", SP, "y", "o", "u", "r", SP, "k", "n", "o", "w", "l", "e", "d", "g",
      "e", SP, "b", "a", "s", "e", SP, "i", "n", "f", "o", "r", "m", "a", "t", "i", "o", "n", SP,
      "h", "e", "r", "e", ".", ".", ".">>

InitWizardVars ==
    /\ screen = "main"
    /\ buttons = {"Cancel", "Next"}
    /\ result_text = <<>>
    /\ use_case = Placeholder
    /\ current_step = 1
    /\ shown = 0

\* no call of validate_shacl or auto_correct_shacl has been made
InitCleanVars ==
    /\ shacl_doc = None
    /\ parsed = None
    /\ ret = None

InitAsk ==
    /\ history = <<SystemMessage>>
    /\ last = Idle
    /\ asks = 0
    /\ InitWizardVars
    /\ InitCleanVars

AskCall ==
    /\ asks < MaxAskCalls
    /\ \E n \in 0..MaxRetries :
         \E api \in [1..n -> ApiOutcomes(AskResponses)] :
            LET r == Ask(history, AskPrompt, n, api)
            IN  /\ history' = r.history
                /\ last' = [op |-> "ask", max_retries |-> n, before |-> history,
                            api |-> SubSeq(api, 1, Requests(r.events)),
                            outcome |-> r.outcome, response |-> r.response,
                            events |-> r.events]
    /\ asks' = asks + 1
    /\ UNCHANGED <<screen, buttons, result_text, use_case, current_step, shown,
                   shacl_doc, parsed, ret>>

NextAsk == AskCall

SpecAsk == InitAsk /\ [][NextAsk]_vars

-----------------------------------------------------------------------------
(* Specification of the cleaning functions applied to the input documents. *)

InitClean ==
    /\ shacl_doc \in InputDocs
    /\ parsed = None
    /\ ret = None
    /\ history = <<SystemMessage>>
    /\ last = Idle
    /\ asks = 0
    /\ InitWizardVars

ValidateShacl ==
    /\ \E p \in ParseOutcomes, v \in ValidatorOutcomes :
          /\ ret' = validate_shacl(shacl_doc, p, v)
          /\ last' = [op |-> "validate_shacl", parse |-> p, validator |-> v]
    /\ parsed' = ValidateInput(shacl_doc)
    /\ UNCHANGED <<history, asks, screen, buttons, result_text, use_case,
                   current_step, shown, shacl_doc>>

AutoCorrectShacl ==
    /\ \E p \in ParseOutcomes, cp \in ClassesAndProperties :
          /\ ret' = auto_correct_shacl(shacl_doc, cp, p)
          /\ last' = [op |-> "auto_correct_shacl", parse |-> p]
    /\ parsed' = AutoCorrectInput(shacl_doc)
    /\ UNCHANGED <<history, asks, screen, buttons, result_text, use_case,
                   current_step, shown, shacl_doc>>

NextClean == ValidateShacl \/ AutoCorrectShacl

SpecClean == InitClean /\ [][NextClean]_vars

-----------------------------------------------------------------------------
(* The wizard: one action per button of the window.                        *)

MaxAsks == 3

\* what the LLM answers
Responses == { <<BT, BT, BT, "t", "u", "r", "t", "l", "e", NL, "-", SP, "A", ":", SP, "b", NL, BT, BT, BT>>,
               <<"-", SP, "A", ":", "b">> }

\* what the user can have typed in the input box when pressing Next
UseCaseTexts == { <<>>, <<SP, NL>>, <<"a", SP, "s", "h", "o", "p">> }

\* what simpledialog.askstring returns: None on cancel, else the text typed
DialogResults == { None, <<>>, <<"m", "o", "r", "e">> }

\* what the API does on the requests of one call.  The requests after the
\* first success are never made, so the runs that differ only there are
\* represented by the one that repeats the success.
ApiRuns ==
    {api \in [1..DefaultMaxRetries -> ApiOutcomes(Responses)] :
        \A k \in 1..(DefaultMaxRetries - 1) : api[k].ok => api[k + 1] = api[k]}

Init ==
    /\ history = <<SystemMessage>>
    /\ last = Idle
    /\ asks = 0
    /\ InitWizardVars
    /\ InitCleanVars

Done(op, notice, r) ==
    [op |-> op, notice |-> notice, calls |-> 1, outcome |-> r.outcome,
     requests |-> Requests(r.events)]

DoneWithoutAsk(op, notice) ==
    [op |-> op, notice |-> notice, calls |-> 0, outcome |-> "none", requests |-> 0]

\* the record of a process_use_case run also keeps what the input box held
WithBox(rec, box) ==
    [f \in DOMAIN rec \cup {"box"} |-> IF f = "box" THEN box ELSE rec[f]]

\* create_result_interface(result, prompt), run while current_step is still
\* the value it had when the handler started
CreateResultInterface(result) ==
    /\ screen' = "result"
    /\ result_text' = extract_shacl_code(result)
    /\ buttons' = ResultButtons(current_step)

\* create_main_interface: clear_window destroys the result widget
CreateMainInterface ==
    /\ screen' = "main"
    /\ result_text' = <<>>
    /\ buttons' = {"Cancel", "Next"}
    /\ shown' = 0

\* self.destroy
Destroy ==
    /\ screen' = "closed"
    /\ result_text' = <<>>
    /\ buttons' = {}
    /\ shown' = 0

\* "Next": process_use_case() with the input box holding box
ProcessUseCase(box) ==
    /\ "Next" \in buttons
    /\ use_case' = UseCaseOf(box, None)
    /\ IF use_case' = <<>>
       THEN \* messagebox.showwarning and return
            /\ last' = WithBox(DoneWithoutAsk("process_use_case", "warning"), box)
            /\ UNCHANGED <<history, asks, screen, buttons, result_text,
                           current_step, shown>>
       ELSE /\ asks < MaxAsks
            /\ asks' = asks + 1
            /\ \E api \in ApiRuns :
                 LET r == Ask(history, Prompt1(use_case'), DefaultMaxRetries, api)
                 IN  /\ history' = r.history
                     /\ IF r.outcome = "return"
                        THEN /\ CreateResultInterface(r.response)
                             /\ current_step' = 1
                             /\ shown' = 1
                             /\ last' = WithBox(Done("process_use_case", "none", r), box)
                        ELSE \* the exception leaves the handler; Tk reports it
                             /\ last' = WithBox(Done("process_use_case", "exception", r), box)
                             /\ UNCHANGED <<screen, buttons, result_text,
                                            current_step, shown>>
    /\ UNCHANGED <<shacl_doc, parsed, ret>>

\* "Next Step" while current_step is 1 or 2: the LLM call of process_next_step
NextStepAsk(prompt) ==
    /\ asks < MaxAsks
    /\ asks' = asks + 1
    /\ \E api \in ApiRuns :
         LET r == Ask(history, prompt, DefaultMaxRetries, api)
         IN  /\ history' = r.history
             /\ IF r.outcome = "return"
                THEN /\ CreateResultInterface(r.response)
                     /\ current_step' = StepAfter(current_step)
                     /\ shown' = StepAfter(current_step)
                     /\ last' = Done("process_next_step", "none", r)
                ELSE /\ last' = Done("process_next_step", "exception", r)
                     /\ UNCHANGED <<screen, buttons, result_text, current_step,
                                    shown>>

\* "Next Step": process_next_step(prompt)
ProcessNextStep ==
    /\ "Next Step" \in buttons
    /\ LET formatted == Strip(TextGet(result_text))
       IN  \/ /\ current_step = 1
              /\ \A k \in DOMAIN Entities(formatted) :
                    HasDescription(formatted, Entities(formatted)[k])
              /\ NextStepAsk(Prompt2(formatted))
           \/ /\ current_step = 1
              /\ \E k \in DOMAIN Entities(formatted) :
                    ~HasDescription(formatted, Entities(formatted)[k])
              \* IndexError while prompt_2 is built: nothing was changed yet
              /\ last' = DoneWithoutAsk("process_next_step", "exception")
              /\ UNCHANGED <<history, asks, screen, buttons, result_text,
                             current_step, shown>>
           \/ /\ current_step = 2
              /\ NextStepAsk(Prompt3(formatted))
           \/ /\ current_step = 3
              /\ Destroy
              /\ last' = DoneWithoutAsk("process_next_step", "none")
              /\ UNCHANGED <<history, asks, current_step>>
    /\ UNCHANGED <<use_case, shacl_doc, parsed, ret>>

\* "Give Feedback": ask_for_new_prompt(prompt) with the dialog returning answer
AskForNewPrompt(answer) ==
    /\ "Give Feedback" \in buttons
    /\ IF answer = None \/ answer = <<>>
       THEN /\ last' = DoneWithoutAsk("ask_for_new_prompt", "none")
            /\ UNCHANGED <<history, asks, screen, buttons, result_text>>
       ELSE /\ asks < MaxAsks
            /\ asks' = asks + 1
            /\ \E api \in ApiRuns :
                 LET appended == Append(history, UserMessage(PlainPrompt(answer)))
                     r == Ask(appended, PlainPrompt(answer), DefaultMaxRetries, api)
                 IN  /\ history' = r.history
                     /\ IF r.outcome = "return"
                        THEN /\ CreateResultInterface(r.response)
                             /\ last' = Done("ask_for_new_prompt", "none", r)
                        ELSE /\ last' = Done("ask_for_new_prompt", "exception", r)
                             /\ UNCHANGED <<screen, buttons, result_text>>
    /\ UNCHANGED <<use_case, current_step, shown, shacl_doc, parsed, ret>>

\* "Back": create_main_interface
Back ==
    /\ "Back" \in buttons
    /\ CreateMainInterface
    /\ last' = DoneWithoutAsk("create_main_interface", "none")
    /\ UNCHANGED <<history, asks, use_case, current_step, shacl_doc, parsed, ret>>

\* "Cancel" and "Close": destroy
Close ==
    /\ buttons \cap {"Cancel", "Close"} # {}
    /\ Destroy
    /\ last' = DoneWithoutAsk("destroy", "none")
    /\ UNCHANGED <<history, asks, use_case, current_step, shacl_doc, parsed, ret>>

Next ==
    \/ \E box \in UseCaseTexts : ProcessUseCase(box)
    \/ ProcessNextStep
    \/ \E answer \in DialogResults : AskForNewPrompt(answer)
    \/ Back
    \/ Close

Spec == Init /\ [][Next]_vars

-----------------------------------------------------------------------------
(* Claims.                                                                 *)

\* some request built from the given prompt template was answered
Replied(template) ==
    \E i \in 1..(Len(history) - 1) :
        /\ history[i].role = "user"
        /\ history[i].content.template = template
        /\ history[i + 1].role = "assistant"

\* the step taken changes current_step in one of the allowed ways
StepChangeAllowed ==
    current_step' # current_step =>
        \/ /\ last'.op = "process_use_case"
           /\ current_step' = 1
           /\ last'.calls = 1 /\ last'.outcome = "return"
        \/ /\ last'.op = "process_next_step"
           /\ current_step \in {1, 2}
           /\ current_step' = current_step + 1
           /\ last'.calls = 1 /\ last'.outcome = "return"
           /\ Len(history') = Len(history) + last'.requests + 1

\* Next Step pressed at step 3 closes the window and calls nothing
CloseAtStepThree ==
    (last'.op = "process_next_step" /\ current_step = 3) =>
        /\ screen' = "closed"
        /\ last'.calls = 0 /\ last'.requests = 0
        /\ history' = history
        /\ current_step' = 3

StepsInOrder ==
    /\ current_step \in {1, 2, 3}
    /\ current_step >= 2 => Replied("prompt_1") /\ Replied("prompt_2")
    /\ current_step = 3 => Replied("prompt_3")

\* C1: current_step is always 1, 2 or 3; it changes only by process_use_case
\* setting it to 1 or by process_next_step moving 1 to 2 or 2 to 3, each
\* through one successful ask; process_next_step at step 3 closes the window
\* without an LLM call; step 2 or 3 is never reached before the steps before
\* it were answered.
C1_LinearWizard ==
    [][StepsInOrder /\ StepsInOrder' /\ StepChangeAllowed /\ CloseAtStepThree]_vars

C1_Witness ==
    /\ screen = "closed"
    /\ current_step = 3
    /\ last.op = "process_next_step"

\* C2: whenever the step-3 document is on screen, it went through
\* validate_shacl or auto_correct_shacl before being displayed: a call of one
\* of them was made (shacl_doc holds its argument, parsed the document it
\* handed to the parser).
C2_Step3Linted ==
    (screen = "result" /\ shown = 3) => (shacl_doc # None /\ parsed # None)

\* the events of a call are request, sleep, request, ..., request
Alternating(events) ==
    /\ Len(events) % 2 = 1
    /\ \A i \in DOMAIN events :
          events[i] = IF i % 2 = 1 THEN "request" ELSE "sleep"

\* C3: ask with max_retries = n >= 1 makes at most n requests, stops at the
\* first request that succeeds and returns its response, and sleeps once
\* between two consecutive attempts and nowhere else: success on attempt k means
\* k requests and k - 1 sleeps.
C3_AskRetries ==
    (last.op = "ask" /\ last.max_retries >= 1) =>
        /\ Requests(last.events) <= last.max_retries
        /\ Alternating(last.events)
        /\ \A k \in 1..(Len(last.api) - 1) : ~last.api[k].ok
        /\ last.api[Len(last.api)].ok =>
              /\ last.outcome = "return"
              /\ last.response = last.api[Len(last.api)].text
        /\ last.outcome = "return" =>
              /\ last.api[Requests(last.events)].ok
              /\ Sleeps(last.events) = Requests(last.events) - 1

C3_Witness ==
    /\ last.op = "ask"
    /\ last.max_retries >= 3
    /\ last.outcome = "return"
    /\ Requests(last.events) = 3
    /\ Sleeps(last.events) = 2

\* C4: for every max_retries, ask ends by returning a response string or by
\* raising; when every attempt failed it raises, without a sleep after the
\* last attempt and without an assistant message appended.
C4_ReturnsOrRaises ==
    last.op = "ask" =>
        /\ last.outcome \in {"return", "raise"}
        /\ last.outcome = "return" => last.response # None
        /\ (\A k \in DOMAIN last.api : ~last.api[k].ok) =>
              /\ last.outcome = "raise"
              /\ last.events # <<>> /\ last.events[Len(last.events)] = "request"
              /\ history[Len(history)].role # "assistant"

\* C5: a Step 3 result is shown with Give Feedback and Close only, a Step 1
\* or Step 2 result with Back, Next Step and Give Feedback.
C5_ButtonsMatchStep ==
    screen = "result" =>
        buttons = IF shown = 3 THEN {"Give Feedback", "Close"}
                  ELSE {"Back", "Next Step", "Give Feedback"}

\* C6: the history starts with the system message and then alternates user
\* prompt, assistant reply: every user prompt is there once and is followed
\* by one reply.
C6_WellFormedHistory ==
    /\ history[1] = SystemMessage
    /\ Len(history) % 2 = 1
    /\ \A i \in 2..Len(history) :
          history[i].role = IF i % 2 = 0 THEN "user" ELSE "assistant"

\* C7: process_use_case with an empty or whitespace-only input box shows the
\* warning, makes no LLM request, leaves the history and current_step as they
\* were and leaves the input screen displayed.
C7_BlankUseCaseRejected ==
    [][(last'.op = "process_use_case" /\ Strip(last'.box) = <<>>) =>
          /\ last'.notice = "warning"
          /\ last'.calls = 0 /\ last'.requests = 0
          /\ history' = history
          /\ current_step' = current_step
          /\ screen = "main" /\ screen' = "main"
          /\ buttons' = buttons]_vars

C7_Witness ==
    /\ last.op = "process_use_case"
    /\ last.notice = "warning"
    /\ last.box = <<SP, NL>>
    /\ Len(history) > 1
    /\ screen = "main"

\* the input is a statement wrapped in a fence opened with the given tag
Wrapped(doc, tag) ==
    /\ StartsAt(doc, 1, Fence \o tag \o <<NL>>)
    /\ StartsAt(doc, Len(doc) - 2, Fence)

\* C8: for an input that wraps its Turtle in a fence (bare, turtle or ttl),
\* the document handed to the parser holds no backtick and no language tag,
\* and the statement inside the fence is kept.
C8_FenceRemoved ==
    last.op \in {"validate_shacl", "auto_correct_shacl"} =>
        \A tag \in {<<>>, TagTurtle, TagTtl} :
            Wrapped(shacl_doc, tag) =>
                /\ ~Contains(parsed, <<BT>>)
                /\ ~Contains(parsed, TagTurtle)
                /\ ~Contains(parsed, TagTtl)
                /\ \A b \in Bodies : Contains(shacl_doc, b) => Contains(parsed, b)

\* the @prefix declaration starting at index i of doc ends with a dot
Dotted(doc, i) ==
    LET line == Strip(Slice(doc, i, LineEnd(doc, i) - 1))
    IN  line[Len(line)] = "."

\* C9: in the document handed to the parser every @prefix declaration ends
\* with a dot, and a declaration that had its dot is unchanged.
C9_PrefixDotted ==
    last.op \in {"validate_shacl", "auto_correct_shacl"} =>
        /\ \A i \in 1..Len(parsed) :
              StartsAt(parsed, i, AtPrefix) => Dotted(parsed, i)
        /\ Contains(shacl_doc, DottedPrefix) => Contains(parsed, DottedPrefix)

\* C10: validate_shacl returns a pair in every case: (False, message) when the
\* parser or the validator raised, the validator's pair otherwise; never
\* conforms = True for a document the parser rejected.
C10_FailuresAsValues ==
    last.op = "validate_shacl" =>
        /\ Len(ret) = 2
        /\ last.parse.raised => ret = <<FALSE, last.parse.msg>>
        /\ (~last.parse.raised /\ last.validator.raised) =>
              ret = <<FALSE, last.validator.msg>>
        /\ (~last.parse.raised /\ ~last.validator.raised) =>
              ret = <<last.validator.conforms, last.validator.results_text>>

C10_Witness ==
    /\ last.op = "validate_shacl"
    /\ ~last.parse.raised
    /\ last.validator.raised
    /\ ret = <<FALSE, "Validator failure">>

====
